---- MODULE Spec2Model ----
(***************************************************************************)
(* RLPx framing layer of util/src/network/connection.rs: the byte pipe     *)
(* (Connection) and the framed, encrypted channel (EncryptedConnection).   *)
(*                                                                         *)
(* Byte strings are run-length encoded: a run stands for n consecutive     *)
(* bytes.  A byte is the XOR of a known constant b with a set a of         *)
(* symbolic pseudo-random bytes ("atoms"): keystream bytes, digest bytes,  *)
(* block-cipher output bytes, secrets.  An atom is <<kind, id, off>>; the  *)
(* i-th byte of a run (i from 0) carries the run's atoms with off + i.     *)
(* XOR is exact (constants XOR bitwise, atoms cancel in pairs); AES and    *)
(* Keccak are ideal: two outputs are equal only when key, position and     *)
(* input are equal, and pseudo-random bytes of different origin are        *)
(* different bytes.                                                        *)
(***************************************************************************)
EXTENDS Integers, Sequences, FiniteSets, TLC

VARIABLES
    conn,       \* SpecPipe: a bare Connection
    sockIn,     \* SpecPipe: bytes waiting in the socket's receive buffer
    sockOut,    \* SpecPipe: every byte the socket has accepted, in order
    ph,         \* SpecPipe: history (blocks passed to send, bytes read, cycle)
    pret        \* SpecPipe: the last call and what it returned

pipeVars == <<conn, sockIn, sockOut, ph, pret>>

VARIABLES
    chan,       \* the two ends, "A" (originator) and "B" (responder)
    wire,       \* bytes A's socket accepted that B's socket has not yet handed over
    evl,        \* B's event loop: the timeouts armed in it
    hist,       \* history: payloads sent, packets delivered, byte counts, call counts
    ret         \* the last call and what it returned

chanVars == <<chan, wire, evl, hist, ret>>

vars == <<conn, sockIn, sockOut, ph, pret, chan, wire, evl, hist, ret>>

----------------------------------------------------------------------------
(* Bounds of the model *)

\* SpecPipe: bytes the peer delivers to the socket in total
MaxIn == 5
\* SpecPipe: largest size passed to expect
MaxExpect == 3
\* SpecPipe: largest block passed to send
MaxBlock == 3
\* SpecPipe: number of send calls
MaxSends == 3
\* packets A sends
MaxPackets == 2
\* packets B sends
MaxReply == 1
\* changes made to the bytes in transit
MaxTamper == 1

----------------------------------------------------------------------------
(* Byte strings (Bytes = Vec<u8>), run-length encoded *)

\* F applied to the value of x: x is evaluated once
Let(x, F(_)) == CHOOSE y \in {F(v) : v \in {x}} : TRUE

Min(x, y) == IF x < y THEN x ELSE y

Run(n, b, a) == [n |-> n, b |-> b, a |-> a]

\* n copies of the constant byte b
Lit(b, n) == IF n = 0 THEN <<>> ELSE <<Run(n, b, {})>>

\* n fresh pseudo-random bytes named by <<kind, id>>, from offset off
Sym(kind, id, off, n) == IF n = 0 THEN <<>> ELSE <<Run(n, 0, {<<kind, id, off>>})>>

Shift(a, k) == {<<x[1], x[2], x[3] + k>> : x \in a}

Mergeable(r, s) == r.b = s.b /\ s.a = Shift(r.a, r.n)

\* concatenation; both arguments and the result are in canonical form
BCat(s0, t0) ==
    Let(s0, LAMBDA s : Let(t0, LAMBDA t :
        IF s = <<>> THEN t
        ELSE IF t = <<>> THEN s
        ELSE IF Mergeable(s[Len(s)], t[1])
        THEN SubSeq(s, 1, Len(s) - 1) \o <<Run(s[Len(s)].n + t[1].n, t[1].b, s[Len(s)].a)>> \o Tail(t)
        ELSE s \o t))

RECURSIVE BLen(_)
BLen(s0) == Let(s0, LAMBDA s : IF s = <<>> THEN 0 ELSE s[1].n + BLen(Tail(s)))

\* s[0..k]
RECURSIVE BTake(_, _)
BTake(s0, k0) ==
    Let(s0, LAMBDA s : Let(k0, LAMBDA k :
        IF k <= 0 \/ s = <<>> THEN <<>>
        ELSE IF s[1].n <= k THEN <<s[1]>> \o BTake(Tail(s), k - s[1].n)
        ELSE <<Run(k, s[1].b, s[1].a)>>))

\* s[k..]
RECURSIVE BDrop(_, _)
BDrop(s0, k0) ==
    Let(s0, LAMBDA s : Let(k0, LAMBDA k :
        IF k <= 0 \/ s = <<>> THEN s
        ELSE IF s[1].n <= k THEN BDrop(Tail(s), k - s[1].n)
        ELSE <<Run(s[1].n - k, s[1].b, Shift(s[1].a, k))>> \o Tail(s)))

\* s[i..j]
BSlice(s, i, j) == BTake(BDrop(s, i), j - i)

RECURSIVE XorByte(_, _, _)
XorByte(x, y, w) ==
    IF w = 0 THEN 0
    ELSE (((x % 2) + (y % 2)) % 2) + 2 * XorByte(x \div 2, y \div 2, w - 1)

SymDiff(a, c) == (a \ c) \cup (c \ a)

\* bytewise XOR of two strings, over the length of the shorter
RECURSIVE BXor(_, _)
BXor(s0, t0) ==
    Let(s0, LAMBDA s : Let(t0, LAMBDA t :
        IF s = <<>> \/ t = <<>> THEN <<>>
        ELSE Let(Min(s[1].n, t[1].n), LAMBDA m :
                 BCat(<<Run(m, XorByte(s[1].b, t[1].b, 8), SymDiff(s[1].a, t[1].a))>>,
                      BXor(BDrop(s, m), BDrop(t, m))))))

\* the numeric value of byte i (from 0) of s, when it is a known constant
IsClean(s) == \A i \in 1..Len(s) : s[i].a = {}
ByteAt(s, i) == BSlice(s, i, i + 1)[1].b

----------------------------------------------------------------------------
(* The byte pipe: Connection *)

ConnNew == [rec_buf |-> <<>>, rec_size |-> 0, send_queue |-> <<>>, interest |-> {"hup"}]

ConnExpect(c, size) == [c EXCEPT !.rec_buf = <<>>, !.rec_size = size]

\* mutant of ConnReadable: the read is not capped by take(max)
ConnReadable_uncapped(c, inq, o) ==
    LET got == IF o.t = "ok" THEN Min(o.k, BLen(inq)) ELSE 0
        buf == BCat(c.rec_buf, BTake(inq, got))
    IN  IF o.t = "err"
        THEN [conn |-> c, res |-> [t |-> "err", kind |-> "Io"], k |-> 0]
        ELSE IF o.t = "ok" /\ BLen(buf) = c.rec_size
        THEN [conn |-> [c EXCEPT !.rec_size = 0, !.rec_buf = <<>>],
              res |-> [t |-> "some", data |-> buf], k |-> got]
        ELSE [conn |-> [c EXCEPT !.rec_buf = buf], res |-> [t |-> "none"], k |-> got]

\* mutant of ConnReadable: a failed read drops what was buffered
ConnReadable_errclear(c, inq, o) ==
    LET max == c.rec_size - BLen(c.rec_buf)
        got == IF max = 0 THEN 0
               ELSE IF o.t = "ok" THEN Min(Min(o.k, max), BLen(inq))
               ELSE 0
        buf == BCat(c.rec_buf, BTake(inq, got))
    IN  IF max # 0 /\ o.t = "err"
        THEN [conn |-> [c EXCEPT !.rec_buf = <<>>], res |-> [t |-> "err", kind |-> "Io"], k |-> 0]
        ELSE IF (max = 0 \/ o.t = "ok") /\ BLen(buf) = c.rec_size
        THEN [conn |-> [c EXCEPT !.rec_size = 0, !.rec_buf = <<>>],
              res |-> [t |-> "some", data |-> buf], k |-> got]
        ELSE [conn |-> [c EXCEPT !.rec_buf = buf], res |-> [t |-> "none"], k |-> got]

(* Connection::readable.  inq: the bytes waiting in the socket; o: what the   *)
(* socket does when read: [t |-> "ok", k |-> bytes it can hand over],         *)
(* [t |-> "block"] (would block) or [t |-> "err"].  take(max) caps the read;  *)
(* a read of at most 0 bytes returns Ok(0) without touching the socket.       *)
ConnReadable(c, inq, o) ==
    LET max == c.rec_size - BLen(c.rec_buf)
        got == IF max = 0 THEN 0
               ELSE IF o.t = "ok" THEN Min(Min(o.k, max), BLen(inq))
               ELSE 0
        buf == BCat(c.rec_buf, BTake(inq, got))
    IN  IF max # 0 /\ o.t = "err"
        THEN [conn |-> c, res |-> [t |-> "err", kind |-> "Io"], k |-> 0]
        ELSE IF (max = 0 \/ o.t = "ok") /\ BLen(buf) = c.rec_size
        THEN [conn |-> [c EXCEPT !.rec_size = 0, !.rec_buf = <<>>],
              res |-> [t |-> "some", data |-> buf], k |-> got]
        ELSE [conn |-> [c EXCEPT !.rec_buf = buf], res |-> [t |-> "none"], k |-> got]

\* mutant of ConnSend: the block is put at the front of the queue
ConnSend_front(c, data) ==
    [c EXCEPT !.send_queue = IF data # <<>>
                             THEN <<[data |-> data, pos |-> 0]>> \o @
                             ELSE @,
              !.interest = @ \cup {"writable"}]

ConnSend(c, data) ==
    [c EXCEPT !.send_queue = IF data # <<>>
                             THEN Append(@, [data |-> data, pos |-> 0])
                             ELSE @,
              !.interest = @ \cup {"writable"}]

\* mutant of WritableThen: a block written out is not removed
WritableThen_nopop(c, r) ==
    [c EXCEPT !.interest = IF c.send_queue = <<>> THEN @ \ {"writable"}
                           ELSE @ \cup {"writable"}]

\* the and_then closure of Connection::writable
WritableThen(c, r) ==
    LET q == IF r = "Complete" THEN Tail(c.send_queue) ELSE c.send_queue
    IN  [c EXCEPT !.send_queue = q,
                  !.interest = IF q = <<>> THEN @ \ {"writable"} ELSE @ \cup {"writable"}]

(* Connection::writable.  o: what the socket does when written:              *)
(* [t |-> "ok", k |-> bytes it accepts], [t |-> "block"] or [t |-> "err"].   *)
(* out: the bytes the socket accepted.                                       *)
ConnWritable(c, o) ==
    IF c.send_queue = <<>>
    THEN [conn |-> c, res |-> [t |-> "ok", v |-> "Complete"], out |-> <<>>]
    ELSE LET buf == c.send_queue[1]
             send_size == BLen(buf.data)
             k == IF o.t = "ok" THEN Min(o.k, send_size - buf.pos) ELSE 0
             pos == buf.pos + k
             c1 == [c EXCEPT !.send_queue[1].pos = pos]
             out == BSlice(buf.data, buf.pos, pos)
         IN  IF buf.pos >= send_size
             THEN [conn |-> c, res |-> [t |-> "ok", v |-> "Complete"], out |-> <<>>]
             ELSE IF o.t = "err"
             THEN [conn |-> c, res |-> [t |-> "err", kind |-> "Io"], out |-> <<>>]
             ELSE IF pos < send_size
             THEN [conn |-> WritableThen([c1 EXCEPT !.interest = @ \cup {"writable"}], "Ongoing"),
                   res |-> [t |-> "ok", v |-> "Ongoing"], out |-> out]
             ELSE [conn |-> WritableThen(c1, "Complete"),
                   res |-> [t |-> "ok", v |-> "Complete"], out |-> out]

----------------------------------------------------------------------------
(* Keccak-256 (tiny_keccak::Keccak, sha3): the state is the string absorbed *)
(* so far; absorbing in pieces or at once gives the same state.             *)

KeccakNew == <<>>

\* finalize of a clone into an n-byte buffer: the first n bytes of the digest
Squeeze(k, n) == Sym("dg", k, 0, n)

(* A byte absorbed into state k that is itself derived from k's digest is    *)
(* written relative to its place: "digest of the first BLen(k) bytes of this *)
(* string".  The renaming is one-to-one and keeps the state's size linear.   *)
SelfAtom(x, k) ==
    IF x[1] = "dg" /\ x[2] = k THEN <<"dgself", BLen(k), x[3]>>
    ELSE IF x[1] = "ecb" /\ x[2][2] = Squeeze(k, 16) THEN <<"ecbself", <<x[2][1], BLen(k)>>, x[3]>>
    ELSE x

SelfRef(data, k) ==
    [i \in 1..Len(data) |-> Run(data[i].n, data[i].b, {SelfAtom(x, k) : x \in data[i].a})]

\* Keccak::update
KeccakUpdate(k0, data0) ==
    Let(k0, LAMBDA k : Let(data0, LAMBDA data : BCat(k, SelfRef(data, k))))

Sha3(data) == Squeeze(KeccakUpdate(KeccakNew, data), 32)

----------------------------------------------------------------------------
(* AES-256: CTR mode (CtrMode) and the single-block ECB encoder *)

CtrNew(key, iv) == [key |-> key, iv |-> iv, pos |-> 0]

\* encrypt and decrypt are the same: XOR with the next keystream bytes
CtrProcess(c, data0) ==
    Let(data0, LAMBDA data :
        [out |-> BXor(data, Sym("ks", <<c.key, c.iv>>, c.pos, BLen(data))),
         c   |-> [c EXCEPT !.pos = @ + BLen(data)]])

EcbNew(key) == [key |-> key, finished |-> FALSE]

(* encrypt(block, eof): the keyed permutation of one block.  After a call    *)
(* with eof set the encoder is finished and writes nothing until reset: the  *)
(* output buffer keeps the zeros it was created with.                        *)
EcbEncrypt(e, block, eof) ==
    [out |-> IF e.finished THEN Lit(0, 16) ELSE Sym("ecb", <<e.key, block>>, 0, 16),
     e   |-> [e EXCEPT !.finished = @ \/ eof]]

EcbReset(e) == [e EXCEPT !.finished = FALSE]

(* The conversion try! applies to an error of the RLP decoder or of the      *)
(* crypto module on its way to the caller (From<..> for UtilError).  The     *)
(* error kinds are: Auth, Io (socket), Crypto (length or padding of the AES  *)
(* primitives).  A malformed header RLP and an ECDH failure surface as Auth. *)
UtilErrorFrom(e) == IF e \in {"Decoder", "Ecdh"} THEN "Auth" ELSE e

\* crypto::ecdh::agree: the shared secret of two key pairs, or an error
Agree(secret, public) ==
    IF public.valid
    THEN [ok |-> TRUE, v |-> Sym("ecdh", {secret, public.of}, 0, 32)]
    ELSE [ok |-> FALSE, err |-> "Ecdh"]

----------------------------------------------------------------------------
(* The framed channel: EncryptedConnection *)

ENCRYPTED_HEADER_LEN == 32

Padding(len) == (16 - (len % 16)) % 16

\* mutant of UpdateMac: the encoder is not reset
UpdateMac_noreset(mac, mac_encoder, seed) ==
    Let(Squeeze(mac, 16), LAMBDA prev :
    Let(EcbEncrypt(mac_encoder, prev, TRUE), LAMBDA e :
    Let(BXor(e.out, IF seed = <<>> THEN prev ELSE seed), LAMBDA enc :
        [mac |-> KeccakUpdate(mac, enc), mac_encoder |-> e.e])))

\* EncryptedConnection::update_mac
UpdateMac(mac, mac_encoder, seed) ==
    Let(Squeeze(mac, 16), LAMBDA prev :
    Let(EcbEncrypt(mac_encoder, prev, TRUE), LAMBDA e :
    Let(BXor(e.out, IF seed = <<>> THEN prev ELSE seed), LAMBDA enc :
        [mac |-> KeccakUpdate(mac, enc), mac_encoder |-> EcbReset(e.e)])))

\* mutant of EncNew: the hash of line 210 is left out
EncNew_onehash(h) ==
    Let(Agree(h.ecdhe, h.remote_public), LAMBDA shared :
        IF ~shared.ok THEN [t |-> "err", kind |-> UtilErrorFrom(shared.err)]
        ELSE
    Let(IF h.originated THEN BCat(h.remote_nonce, h.nonce)
        ELSE BCat(h.nonce, h.remote_nonce), LAMBDA nonce_material :
    Let(BCat(shared.v, Sha3(nonce_material)), LAMBDA km1 :
    Let(BCat(BTake(km1, 32), Sha3(km1)), LAMBDA km2 :
    Let(km2, LAMBDA km3 :
    Let(BCat(BTake(km3, 32), Sha3(km3)), LAMBDA km4 :
        [t |-> "ok",
         ch |-> [st |-> "up",
                 connection |-> h.connection,
                 encoder |-> CtrNew(BDrop(km3, 32), Lit(0, 16)),
                 decoder |-> CtrNew(BDrop(km3, 32), Lit(0, 16)),
                 mac_encoder |-> EcbNew(BDrop(km4, 32)),
                 egress_mac |->
                     KeccakUpdate(KeccakUpdate(KeccakNew, BXor(BDrop(km4, 32), h.remote_nonce)),
                                  IF h.originated THEN h.auth_cipher ELSE h.ack_cipher),
                 ingress_mac |->
                     KeccakUpdate(KeccakUpdate(KeccakNew, BXor(BDrop(km4, 32), h.nonce)),
                                  IF h.originated THEN h.ack_cipher ELSE h.auth_cipher),
                 read_state |-> "Header",
                 idle_timeout |-> <<>>,
                 protocol_id |-> 0,
                 payload_len |-> 0]]))))))

\* EncryptedConnection::new; km1..km4 are the successive values of key_material
EncNew(h) ==
    Let(Agree(h.ecdhe, h.remote_public), LAMBDA shared :
        IF ~shared.ok THEN [t |-> "err", kind |-> UtilErrorFrom(shared.err)]
        ELSE
    Let(IF h.originated THEN BCat(h.remote_nonce, h.nonce)
        ELSE BCat(h.nonce, h.remote_nonce), LAMBDA nonce_material :
    Let(BCat(shared.v, Sha3(nonce_material)), LAMBDA km1 :
    Let(BCat(BTake(km1, 32), Sha3(km1)), LAMBDA km2 :
    Let(BCat(BTake(km2, 32), Sha3(km2)), LAMBDA km3 :
    Let(BCat(BTake(km3, 32), Sha3(km3)), LAMBDA km4 :
        [t |-> "ok",
         ch |-> [st |-> "up",
                 connection |-> h.connection,
                 encoder |-> CtrNew(BDrop(km3, 32), Lit(0, 16)),
                 decoder |-> CtrNew(BDrop(km3, 32), Lit(0, 16)),
                 mac_encoder |-> EcbNew(BDrop(km4, 32)),
                 egress_mac |->
                     KeccakUpdate(KeccakUpdate(KeccakNew, BXor(BDrop(km4, 32), h.remote_nonce)),
                                  IF h.originated THEN h.auth_cipher ELSE h.ack_cipher),
                 ingress_mac |->
                     KeccakUpdate(KeccakUpdate(KeccakNew, BXor(BDrop(km4, 32), h.nonce)),
                                  IF h.originated THEN h.ack_cipher ELSE h.auth_cipher),
                 read_state |-> "Header",
                 idle_timeout |-> <<>>,
                 protocol_id |-> 0,
                 payload_len |-> 0]]))))))

\* the 3-byte big-endian length: [(len >> 16) as u8, (len >> 8) as u8, len as u8]
Len3(len) ==
    BCat(BCat(Lit((len \div 65536) % 256, 1), Lit((len \div 256) % 256, 1)), Lit(len % 256, 1))

\* the header data of send_packet: 0xc2 0x80 0x80
HeaderRlp == BCat(Lit(194, 1), Lit(128, 2))

\* mutant of SendFrame: one cipher state serves both directions
SendFrame_onecipher(ch, payload, hdata) ==
    Let(BLen(payload), LAMBDA len :
    Let(Padding(len), LAMBDA padding :
    Let(BCat(BCat(Len3(len), hdata), Lit(0, 16 - 3 - BLen(hdata))), LAMBDA header :
    Let(CtrProcess(ch.encoder, header), LAMBDA e1 :
    Let(UpdateMac(ch.egress_mac, ch.mac_encoder, e1.out), LAMBDA m1 :
    Let(CtrProcess(e1.c, payload), LAMBDA e2 :
    Let(IF padding # 0 THEN CtrProcess(e2.c, Lit(0, padding))
        ELSE [out |-> <<>>, c |-> e2.c], LAMBDA e3 :
    Let(BCat(e2.out, e3.out), LAMBDA body :
    Let(KeccakUpdate(m1.mac, body), LAMBDA mac :
    Let(UpdateMac(mac, m1.mac_encoder, <<>>), LAMBDA m2 :
    Let(BCat(BCat(BCat(e1.out, Squeeze(m1.mac, 16)), body), Squeeze(m2.mac, 16)), LAMBDA packet :
        [ch EXCEPT !.encoder = e3.c,
                   !.decoder = e3.c,
                   !.egress_mac = m2.mac,
                   !.mac_encoder = m2.mac_encoder,
                   !.connection = ConnSend(@, packet)])))))))))))

(* The frame of send_packet, for a header data hdata of 3 bytes (send_packet *)
(* itself always writes HeaderRlp; a peer's implementation may write other   *)
(* bytes).  e1, e2, e3: the three calls of encoder.encrypt; m1, m2: the two  *)
(* calls of update_mac.                                                      *)
SendFrame(ch, payload, hdata) ==
    Let(BLen(payload), LAMBDA len :
    Let(Padding(len), LAMBDA padding :
    Let(BCat(BCat(Len3(len), hdata), Lit(0, 16 - 3 - BLen(hdata))), LAMBDA header :
    Let(CtrProcess(ch.encoder, header), LAMBDA e1 :
    Let(UpdateMac(ch.egress_mac, ch.mac_encoder, e1.out), LAMBDA m1 :
    Let(CtrProcess(e1.c, payload), LAMBDA e2 :
    Let(IF padding # 0 THEN CtrProcess(e2.c, Lit(0, padding))
        ELSE [out |-> <<>>, c |-> e2.c], LAMBDA e3 :
    Let(BCat(e2.out, e3.out), LAMBDA body :
    Let(KeccakUpdate(m1.mac, body), LAMBDA mac :
    Let(UpdateMac(mac, m1.mac_encoder, <<>>), LAMBDA m2 :
    Let(BCat(BCat(BCat(e1.out, Squeeze(m1.mac, 16)), body), Squeeze(m2.mac, 16)), LAMBDA packet :
        [ch EXCEPT !.encoder = e3.c,
                   !.egress_mac = m2.mac,
                   !.mac_encoder = m2.mac_encoder,
                   !.connection = ConnSend(@, packet)])))))))))))

\* EncryptedConnection::send_packet
SendPacket(ch, payload) == SendFrame(ch, payload, HeaderRlp)

(* UntrustedRlp::new(d).val_at::<u16>(0) for 3 bytes d: item 0 of a short    *)
(* list, as an integer of at most 2 bytes.                                   *)
RlpValAtU16(d) ==
    LET x0 == ByteAt(d, 0)
        x1 == ByteAt(d, 1)
        x2 == ByteAt(d, 2)
        n == x0 - 192
    IN  IF x0 < 192 \/ x0 > 247 \/ n > 2 \/ n = 0 THEN [t |-> "err", kind |-> "Decoder"]
        ELSE IF x1 < 128 THEN [t |-> "ok", v |-> x1]
        ELSE IF x1 = 128 THEN [t |-> "ok", v |-> 0]
        ELSE IF x1 = 129 /\ n = 2 /\ x2 >= 128 THEN [t |-> "ok", v |-> x2]
        ELSE [t |-> "err", kind |-> "Decoder"]

(* The decoded header fields.  Bytes decrypted with a keystream they were    *)
(* not encrypted with are pseudo-random: what they decode to is j, any of    *)
(* JunkHeaders.                                                              *)
DecodeHeader(hdec, j) ==
    IF IsClean(BTake(hdec, 6))
    THEN [length |-> (ByteAt(hdec, 0) * 256 + ByteAt(hdec, 1)) * 256 + ByteAt(hdec, 2),
          protocol_id |-> RlpValAtU16(BSlice(hdec, 3, 6)), junk |-> FALSE]
    ELSE [length |-> j.length, protocol_id |-> j.protocol_id, junk |-> TRUE]

\* the compare of the received tag with the expected one
MacMatches(mac, expected) == mac = expected

\* mutant of ReadHeader: the header MAC is not compared
ReadHeader_nomac(ch, header, j) ==
    IF BLen(header) # ENCRYPTED_HEADER_LEN
    THEN [ch |-> ch, res |-> [t |-> "err", kind |-> "Auth"], junk |-> FALSE]
    ELSE
    Let(UpdateMac(ch.ingress_mac, ch.mac_encoder, BTake(header, 16)), LAMBDA m :
    Let([ch EXCEPT !.ingress_mac = m.mac, !.mac_encoder = m.mac_encoder], LAMBDA ch1 :
    Let(CtrProcess(ch.decoder, BTake(header, 16)), LAMBDA d :
    Let(DecodeHeader(d.out, j), LAMBDA h :
    Let(h.length + Padding(h.length) + 16, LAMBDA full_length :
        IF h.protocol_id.t = "err"
        THEN [ch |-> [ch1 EXCEPT !.decoder = d.c],
              res |-> [t |-> "err", kind |-> UtilErrorFrom(h.protocol_id.kind)],
              junk |-> h.junk]
        ELSE [ch |-> [ch1 EXCEPT !.decoder = d.c,
                                 !.payload_len = h.length,
                                 !.protocol_id = h.protocol_id.v,
                                 !.read_state = "Payload",
                                 !.connection = ConnExpect(@, full_length)],
              res |-> [t |-> "ok"], junk |-> h.junk])))))

(* EncryptedConnection::read_header.  m: update_mac on the ingress MAC; ch1: *)
(* the channel after it; d: decoder.decrypt; h: length and protocol_id as    *)
(* decoded.                                                                  *)
ReadHeader(ch, header, j) ==
    IF BLen(header) # ENCRYPTED_HEADER_LEN
    THEN [ch |-> ch, res |-> [t |-> "err", kind |-> "Auth"], junk |-> FALSE]
    ELSE
    Let(UpdateMac(ch.ingress_mac, ch.mac_encoder, BTake(header, 16)), LAMBDA m :
    Let([ch EXCEPT !.ingress_mac = m.mac, !.mac_encoder = m.mac_encoder], LAMBDA ch1 :
        IF ~MacMatches(BDrop(header, 16), BTake(Squeeze(m.mac, 32), 16))
        THEN [ch |-> ch1, res |-> [t |-> "err", kind |-> "Auth"], junk |-> FALSE]
        ELSE
    Let(CtrProcess(ch.decoder, BTake(header, 16)), LAMBDA d :
    Let(DecodeHeader(d.out, j), LAMBDA h :
    Let(h.length + Padding(h.length) + 16, LAMBDA full_length :
        IF h.protocol_id.t = "err"
        THEN [ch |-> [ch1 EXCEPT !.decoder = d.c],
              res |-> [t |-> "err", kind |-> UtilErrorFrom(h.protocol_id.kind)],
              junk |-> h.junk]
        ELSE [ch |-> [ch1 EXCEPT !.decoder = d.c,
                                 !.payload_len = h.length,
                                 !.protocol_id = h.protocol_id.v,
                                 !.read_state = "Payload",
                                 !.connection = ConnExpect(@, full_length)],
              res |-> [t |-> "ok"], junk |-> h.junk])))))

\* mutant of ReadPayload: the payload MAC is not compared
ReadPayload_nomac(ch, payload) ==
    Let(BLen(payload), LAMBDA n :
        IF n # ch.payload_len + Padding(ch.payload_len) + 16
        THEN [ch |-> ch, res |-> [t |-> "err", kind |-> "Auth"]]
        ELSE
    Let(KeccakUpdate(ch.ingress_mac, BTake(payload, n - 16)), LAMBDA mac :
    Let(UpdateMac(mac, ch.mac_encoder, <<>>), LAMBDA m :
    Let([ch EXCEPT !.ingress_mac = m.mac, !.mac_encoder = m.mac_encoder], LAMBDA ch1 :
    Let(CtrProcess(ch.decoder, BTake(payload, ch.payload_len)), LAMBDA d1 :
    Let(CtrProcess(d1.c, BSlice(payload, ch.payload_len, n - 16)), LAMBDA d2 :
        [ch |-> [ch1 EXCEPT !.decoder = d2.c],
         res |-> [t |-> "packet", protocol |-> ch.protocol_id, data |-> d1.out]]))))))

\* mutant of ReadPayload: the body is decrypted before the MAC is compared
ReadPayload_decfirst(ch, payload) ==
    Let(BLen(payload), LAMBDA n :
        IF n # ch.payload_len + Padding(ch.payload_len) + 16
        THEN [ch |-> ch, res |-> [t |-> "err", kind |-> "Auth"]]
        ELSE
    Let(KeccakUpdate(ch.ingress_mac, BTake(payload, n - 16)), LAMBDA mac :
    Let(UpdateMac(mac, ch.mac_encoder, <<>>), LAMBDA m :
    Let([ch EXCEPT !.ingress_mac = m.mac, !.mac_encoder = m.mac_encoder], LAMBDA ch1 :
    Let(CtrProcess(ch.decoder, BTake(payload, ch.payload_len)), LAMBDA d1 :
    Let(CtrProcess(d1.c, BSlice(payload, ch.payload_len, n - 16)), LAMBDA d2 :
        IF ~MacMatches(BDrop(payload, n - 16), Squeeze(m.mac, 16))
        THEN [ch |-> [ch1 EXCEPT !.decoder = d2.c], res |-> [t |-> "err", kind |-> "Auth"]]
        ELSE [ch |-> [ch1 EXCEPT !.decoder = d2.c],
              res |-> [t |-> "packet", protocol |-> ch.protocol_id, data |-> d1.out]]))))))

(* EncryptedConnection::read_payload.  The length compared with is           *)
(* full_length; mac: the ingress MAC after update(body); m: update_mac; d1,  *)
(* d2: the two calls of decoder.decrypt.                                     *)
ReadPayload(ch, payload) ==
    Let(BLen(payload), LAMBDA n :
        IF n # ch.payload_len + Padding(ch.payload_len) + 16
        THEN [ch |-> ch, res |-> [t |-> "err", kind |-> "Auth"]]
        ELSE
    Let(KeccakUpdate(ch.ingress_mac, BTake(payload, n - 16)), LAMBDA mac :
    Let(UpdateMac(mac, ch.mac_encoder, <<>>), LAMBDA m :
    Let([ch EXCEPT !.ingress_mac = m.mac, !.mac_encoder = m.mac_encoder], LAMBDA ch1 :
        IF ~MacMatches(BDrop(payload, n - 16), Squeeze(m.mac, 16))
        THEN [ch |-> ch1, res |-> [t |-> "err", kind |-> "Auth"]]
        ELSE
    Let(CtrProcess(ch.decoder, BTake(payload, ch.payload_len)), LAMBDA d1 :
    Let(CtrProcess(d1.c, BSlice(payload, ch.payload_len, n - 16)), LAMBDA d2 :
        [ch |-> [ch1 EXCEPT !.decoder = d2.c],
         res |-> [t |-> "packet", protocol |-> ch.protocol_id, data |-> d1.out]]))))))

\* event_loop.clear_timeout on the channel's timeout, if it has one
\* (an Option is a sequence of at most one element)
ClearIdle(ch, e) ==
    IF ch.idle_timeout = <<>> THEN e ELSE [e EXCEPT !.armed = @ \ {ch.idle_timeout[1]}]

\* mutant of Readable: the result of read_header is dropped (no try!)
Readable_notry(ch, e, inq, o, j) ==
    Let(ConnReadable(ch.connection, inq, o), LAMBDA r :
    Let([ch EXCEPT !.connection = r.conn], LAMBDA ch0 :
    Let([e |-> ClearIdle(ch, e), k |-> r.k, junk |-> FALSE, unit |-> [t |-> "none"]], LAMBDA out :
        IF r.res.t = "err"
        THEN [ch |-> ch0, res |-> r.res] @@ out
        ELSE IF r.res.t = "none"
        THEN [ch |-> ch0, res |-> [t |-> "none"]] @@ out
        ELSE IF ch.read_state = "Header"
        THEN Let(ReadHeader(ch0, r.res.data, j), LAMBDA rh :
                 [ch |-> rh.ch, res |-> [t |-> "none"],
                  unit |-> [t |-> "Header", data |-> r.res.data], junk |-> rh.junk] @@ out)
        ELSE Let(ReadPayload([ch0 EXCEPT !.read_state = "Header",
                                         !.connection = ConnExpect(@, ENCRYPTED_HEADER_LEN)],
                             r.res.data), LAMBDA rp :
                 [ch |-> rp.ch, res |-> rp.res,
                  unit |-> [t |-> "Payload", data |-> r.res.data]] @@ out))))

(* EncryptedConnection::readable.  The result: the channel and the event     *)
(* loop after the call; res, what the call returns; k, the bytes taken from  *)
(* the socket; unit, the receive unit the pipe returned in this call, if     *)
(* any; junk, whether a header was decrypted out of step.                    *)
Readable(ch, e, inq, o, j) ==
    Let(ConnReadable(ch.connection, inq, o), LAMBDA r :
    Let([ch EXCEPT !.connection = r.conn], LAMBDA ch0 :
    Let([e |-> ClearIdle(ch, e), k |-> r.k, junk |-> FALSE, unit |-> [t |-> "none"]], LAMBDA out :
        IF r.res.t = "err"
        THEN [ch |-> ch0, res |-> r.res] @@ out
        ELSE IF r.res.t = "none"
        THEN [ch |-> ch0, res |-> [t |-> "none"]] @@ out
        ELSE IF ch.read_state = "Header"
        THEN Let(ReadHeader(ch0, r.res.data, j), LAMBDA rh :
                 [ch |-> rh.ch, res |-> IF rh.res.t = "err" THEN rh.res ELSE [t |-> "none"],
                  unit |-> [t |-> "Header", data |-> r.res.data], junk |-> rh.junk] @@ out)
        ELSE Let(ReadPayload([ch0 EXCEPT !.read_state = "Header",
                                         !.connection = ConnExpect(@, ENCRYPTED_HEADER_LEN)],
                             r.res.data), LAMBDA rp :
                 [ch |-> rp.ch, res |-> rp.res,
                  unit |-> [t |-> "Payload", data |-> r.res.data]] @@ out))))

\* EncryptedConnection::writable
Writable(ch, e, o) ==
    Let(ConnWritable(ch.connection, o), LAMBDA r :
        [ch |-> [ch EXCEPT !.connection = r.conn], e |-> ClearIdle(ch, e),
         res |-> IF r.res.t = "err" THEN r.res ELSE [t |-> "ok"], out |-> r.out])

\* mutant of Register: the previous timeout is not cleared
Register_noclear(ch, e, tm, rr) ==
    [ch |-> [ch EXCEPT !.connection = ConnExpect(@, ENCRYPTED_HEADER_LEN),
                       !.idle_timeout = IF tm THEN <<e.next>> ELSE <<>>],
     e |-> IF tm THEN [armed |-> e.armed \cup {e.next}, next |-> e.next + 1] ELSE e,
     res |-> IF rr THEN [t |-> "ok"] ELSE [t |-> "err", kind |-> "Io"]]

(* EncryptedConnection::register.  tm: whether event_loop.timeout_ms arms a  *)
(* timeout; rr: whether Connection::reregister succeeds.                     *)
Register(ch, e, tm, rr) ==
    Let(ClearIdle(ch, e), LAMBDA e1 :
        [ch |-> [ch EXCEPT !.connection = ConnExpect(@, ENCRYPTED_HEADER_LEN),
                           !.idle_timeout = IF tm THEN <<e1.next>> ELSE <<>>],
         e |-> IF tm THEN [armed |-> e1.armed \cup {e1.next}, next |-> e1.next + 1] ELSE e1,
         res |-> IF rr THEN [t |-> "ok"] ELSE [t |-> "err", kind |-> "Io"]])

----------------------------------------------------------------------------
(* SpecPipe: the byte pipe alone, driven through its public methods *)

\* what a socket read can do with n bytes waiting
ReadOutcomes(n) ==
    IF n = 0 THEN {[t |-> "block"], [t |-> "err"]}
    ELSE {[t |-> "ok", k |-> k] : k \in 1..n} \cup {[t |-> "err"]}

\* what a socket write can do with n bytes offered
WriteOutcomes(n) ==
    {[t |-> "ok", k |-> k] : k \in 1..n} \cup {[t |-> "block"], [t |-> "err"]}

\* the i-th byte (from 0) the peer delivers
StreamByte(i) == Lit(i + 1, 1)

\* the first n bytes the peer delivers
RECURSIVE Stream(_)
Stream(n) == IF n = 0 THEN <<>> ELSE BCat(Stream(n - 1), StreamByte(n - 1))

\* the block of n distinct bytes passed to the i-th send (i from 0)
RECURSIVE BlockOf(_, _)
BlockOf(i, n) == IF n = 0 THEN <<>> ELSE BCat(BlockOf(i, n - 1), Lit(16 * (i + 1) + n, 1))

\* the remaining bytes of the send queue, in order
RECURSIVE Pending(_)
Pending(q) ==
    IF q = <<>> THEN <<>>
    ELSE BCat(BDrop(q[1].data, q[1].pos), Pending(Tail(q)))

PipeInit ==
    /\ conn = ConnNew
    /\ sockIn = <<>>
    /\ sockOut = <<>>
    /\ ph = [pushed |-> <<>>, sends |-> 0, arrived |-> 0, took |-> <<>>,
             active |-> FALSE, cycN |-> 0, cycAt |-> 0, calls |-> 0]
    /\ pret = [op |-> "new"]
    /\ chan = <<>> /\ wire = <<>> /\ evl = <<>> /\ hist = <<>> /\ ret = <<>>

\* the peer's bytes reach the socket
PipeArrive ==
    /\ ph.arrived < MaxIn
    /\ sockIn' = BCat(sockIn, StreamByte(ph.arrived))
    /\ ph' = [ph EXCEPT !.arrived = @ + 1]
    /\ UNCHANGED <<conn, sockOut, pret, chanVars>>

PipeExpect(n) ==
    /\ conn' = ConnExpect(conn, n)
    /\ ph' = [ph EXCEPT !.active = (n > 0), !.cycN = n, !.cycAt = BLen(ph.took),
                        !.calls = 0]
    /\ pret' = [op |-> "expect"]
    /\ UNCHANGED <<sockIn, sockOut, chanVars>>

PipeReadable(o) ==
    LET r == ConnReadable(conn, sockIn, o)
        took == BCat(ph.took, BTake(sockIn, r.k))
    IN  /\ conn' = r.conn
        /\ sockIn' = BDrop(sockIn, r.k)
        /\ ph' = [ph EXCEPT !.took = took,
                            !.active = @ /\ BLen(took) - ph.cycAt < ph.cycN,
                            !.calls = Min(@ + 1, 2)]
        /\ pret' = [op |-> "readable", res |-> r.res, cyc |-> ph.active]
        /\ UNCHANGED <<sockOut, chanVars>>

\* send is passed a block of n bytes: none, or 1..MaxBlock
PipeSend(n) ==
    /\ ph.sends < MaxSends
    /\ conn' = ConnSend(conn, BlockOf(ph.sends, n))
    /\ ph' = [ph EXCEPT !.pushed = BCat(@, BlockOf(ph.sends, n)), !.sends = @ + 1]
    /\ pret' = [op |-> "send"]
    /\ UNCHANGED <<sockIn, sockOut, chanVars>>

PipeWritable(o) ==
    LET r == ConnWritable(conn, o)
    IN  /\ conn' = r.conn
        /\ sockOut' = BCat(sockOut, r.out)
        /\ pret' = [op |-> "writable", res |-> r.res]
        /\ UNCHANGED <<sockIn, ph, chanVars>>


RecvNext ==
    \/ PipeArrive
    \/ \E n \in 0..MaxExpect : PipeExpect(n)
    \/ \E o \in ReadOutcomes(BLen(sockIn)) : PipeReadable(o)

\* the receive half of the pipe: expect and readable against an arriving stream
SpecRecv == PipeInit /\ [][RecvNext]_vars

SendNext ==
    \/ \E n \in 0..MaxBlock : PipeSend(n)
    \/ \E o \in WriteOutcomes(MaxBlock) : PipeWritable(o)

\* the send half of the pipe: send and writable against a socket
SpecSend == PipeInit /\ [][SendNext]_vars

\* writable is called with the socket accepting at least one byte
WritableAccepts == \E o \in {[t |-> "ok", k |-> k] : k \in 1..MaxBlock} : PipeWritable(o)

\* SpecSend with writable called again and again on a socket that keeps
\* accepting bytes
FairSend == PipeInit /\ [][SendNext]_vars /\ WF_vars(WritableAccepts)

----------------------------------------------------------------------------
(* Two channels over a byte pipe: A sends, B receives (and may send too) *)

\* the first length the 3-byte length field cannot hold
LenLimit == 16777216

\* the payload of a given length
Payload(L) == Lit(65 + (L % 7), L)

\* the handshake records of the two ends; ok: B holds a valid remote key
HsA ==
    [ecdhe |-> "eA", remote_public |-> [valid |-> TRUE, of |-> "eB"],
     nonce |-> Sym("nonce", "A", 0, 32), remote_nonce |-> Sym("nonce", "B", 0, 32),
     auth_cipher |-> Sym("msg", "auth", 0, 4), ack_cipher |-> Sym("msg", "ack", 0, 3),
     originated |-> TRUE, connection |-> ConnNew]

HsB(ok) ==
    [ecdhe |-> "eB", remote_public |-> [valid |-> ok, of |-> "eA"],
     nonce |-> Sym("nonce", "B", 0, 32), remote_nonce |-> Sym("nonce", "A", 0, 32),
     auth_cipher |-> Sym("msg", "auth", 0, 4), ack_cipher |-> Sym("msg", "ack", 0, 3),
     originated |-> FALSE, connection |-> ConnNew]

\* what a header decrypted with the wrong keystream may decode to
JunkDefault == [length |-> 0, protocol_id |-> [t |-> "err", kind |-> "Decoder"]]

JunkHeaders ==
    {JunkDefault, [length |-> 0, protocol_id |-> [t |-> "ok", v |-> 0]],
     [length |-> 16, protocol_id |-> [t |-> "ok", v |-> 1]]}

(* What the socket may do on a write: take all that is offered or, of a     *)
(* block not yet begun, the first half.  faults: it may also take nothing or *)
(* fail.                                                                     *)
ChanWriteOutcomes(c, faults) ==
    LET rest == IF c.send_queue = <<>> THEN 0
                ELSE BLen(c.send_queue[1].data) - c.send_queue[1].pos
    IN  IF rest = 0 THEN {[t |-> "block"]}
        ELSE {[t |-> "ok", k |-> rest]}
             \cup (IF c.send_queue[1].pos = 0 THEN {[t |-> "ok", k |-> (rest + 1) \div 2]} ELSE {})
             \cup (IF faults THEN {[t |-> "block"], [t |-> "err"]} ELSE {})

(* What the socket may do on a read: hand over all it has of what is asked   *)
(* for or, of a unit not yet begun, half of that; nothing when it has        *)
(* nothing.  faults: it may also fail.                                       *)
ChanReadOutcomes(c, inq, faults) ==
    LET max == c.rec_size - BLen(c.rec_buf)
        m == Min(max, BLen(inq))
    IN  IF max = 0 \/ m = 0
        THEN {[t |-> "block"]} \cup (IF faults /\ max # 0 THEN {[t |-> "err"]} ELSE {})
        ELSE {[t |-> "ok", k |-> m]}
             \cup (IF c.rec_buf = <<>> THEN {[t |-> "ok", k |-> (m + 1) \div 2]} ELSE {})
             \cup (IF faults THEN {[t |-> "err"]} ELSE {})

\* the offset on the stream at which frame j (from 1) starts
RECURSIVE FrameStart(_, _)
FrameStart(blens, j) == IF j <= 1 THEN 0 ELSE FrameStart(blens, j - 1) + blens[j - 1]

HasAlt(s) == \E i \in 1..Len(s) : \E x \in s[i].a : x[1] = "alt"

\* oks: whether B's handshake may hold (TRUE), or lack (FALSE), a valid key
ChanInit(oks) ==
    /\ chan \in {[A |-> [st |-> "hs", hs |-> HsA], B |-> [st |-> "hs", hs |-> HsB(ok)]] :
                 ok \in oks}
    /\ wire = <<>>
    /\ evl = [armed |-> {}, next |-> 1]
    /\ hist = [sent |-> <<>>, blens |-> <<>>, delivered |-> <<>>, wrote |-> 0, read |-> 0,
               hdrs |-> 0, replies |-> 0, nreg |-> 0, tampers |-> 0, auth |-> FALSE,
               bad |-> {},
               mv |-> [kind |-> "none", deliv |-> 0, first |-> "pending", unit |-> "none"]]
    /\ ret = [op |-> "init"]
    /\ conn = <<>> /\ sockIn = <<>> /\ sockOut = <<>> /\ ph = <<>> /\ pret = <<>>

\* EncryptedConnection::new(handshake) at end w
New(w) ==
    /\ chan[w].st = "hs"
    /\ \E r \in {EncNew(chan[w].hs)} :
          /\ chan' = [chan EXCEPT ![w] = IF r.t = "ok" THEN r.ch ELSE [st |-> "none"]]
          /\ ret' = [op |-> "new", who |-> w,
                     res |-> IF r.t = "ok" THEN [t |-> "ok"] ELSE r,
                     valid |-> chan[w].hs.remote_public.valid]
    /\ UNCHANGED <<wire, evl, hist, pipeVars>>

\* A.send_packet(Payload(L))
ASend(L) ==
    /\ chan.A.st = "up"
    /\ Len(hist.sent) < MaxPackets
    /\ \E ch \in {SendPacket(chan.A, Payload(L))} :
          /\ chan' = [chan EXCEPT !.A = ch]
          /\ hist' = [hist EXCEPT
                        !.sent = Append(@, L),
                        !.blens = Append(@, BLen(ch.connection.send_queue[
                                                     Len(ch.connection.send_queue)].data))]
          /\ ret' = [op |-> "send_packet", who |-> "A", res |-> [t |-> "ok"],
                     queued |-> Len(ch.connection.send_queue)
                                - Len(chan.A.connection.send_queue)]
    /\ UNCHANGED <<wire, evl, pipeVars>>

\* a peer in A's place sends a frame whose header data is not send_packet's
ASendBad(L, hdata) ==
    /\ chan.A.st = "up"
    /\ Len(hist.sent) < MaxPackets
    /\ \E ch \in {SendFrame(chan.A, Payload(L), hdata)} :
          /\ chan' = [chan EXCEPT !.A = ch]
          /\ hist' = [hist EXCEPT
                        !.sent = Append(@, L),
                        !.blens = Append(@, BLen(ch.connection.send_queue[
                                                     Len(ch.connection.send_queue)].data)),
                        !.bad = @ \cup {Len(hist.sent) + 1}]
          /\ ret' = [op |-> "peer_send", who |-> "A", res |-> [t |-> "ok"]]
    /\ UNCHANGED <<wire, evl, pipeVars>>

\* B.send_packet(Payload(L)); B's frames are queued and not looked at further
BSend(L) ==
    /\ chan.B.st = "up"
    /\ hist.replies < MaxReply
    /\ chan' = [chan EXCEPT !.B = SendPacket(chan.B, Payload(L))]
    /\ hist' = [hist EXCEPT !.replies = @ + 1]
    /\ ret' = [op |-> "send_packet", who |-> "B", res |-> [t |-> "ok"], queued |-> 1]
    /\ UNCHANGED <<wire, evl, pipeVars>>

\* A.writable(event_loop): the bytes the socket accepts go onto the wire
AWritable(o) ==
    /\ chan.A.st = "up"
    /\ \E r \in {Writable(chan.A, [armed |-> {}, next |-> 1], o)} :
          /\ chan' = [chan EXCEPT !.A = r.ch]
          /\ wire' = BCat(wire, r.out)
          /\ hist' = [hist EXCEPT !.wrote = @ + BLen(r.out)]
          /\ ret' = [op |-> "writable", who |-> "A", res |-> r.res]
    /\ UNCHANGED <<evl, pipeVars>>

\* B.register(event_loop)
BRegister(tm, rr) ==
    /\ chan.B.st = "up"
    /\ \E r \in {Register(chan.B, evl, tm, rr)} :
          /\ chan' = [chan EXCEPT !.B = r.ch]
          /\ evl' = r.e
          /\ ret' = [op |-> "register", who |-> "B", res |-> r.res]
    /\ hist' = [hist EXCEPT !.nreg = @ + 1]
    /\ UNCHANGED <<wire, pipeVars>>

\* B.readable(event_loop)
BReadable(o, j) ==
    /\ chan.B.st = "up"
    /\ \E r \in {Readable(chan.B, evl, wire, o, j)} :
          /\ j = JunkDefault \/ r.junk
          /\ chan' = [chan EXCEPT !.B = r.ch]
          /\ evl' = r.e
          /\ wire' = BDrop(wire, r.k)
          /\ hist' = [hist EXCEPT
                        !.read = @ + r.k,
                        !.delivered = IF r.res.t = "packet"
                                      THEN Append(@, [protocol |-> r.res.protocol,
                                                      data |-> r.res.data])
                                      ELSE @,
                        !.hdrs = IF r.unit.t = "Header" /\ r.ch.read_state = "Payload"
                                 THEN @ + 1 ELSE @,
                        !.auth = @ \/ (r.res.t = "err" /\ r.res.kind = "Auth"),
                        !.mv = IF @.kind # "none" /\ @.first = "pending" /\ r.unit.t # "none"
                               THEN [@ EXCEPT !.first = IF r.res.t = "err" THEN r.res.kind
                                                        ELSE "ok",
                                              !.unit = r.unit.t]
                               ELSE @]
          /\ ret' = [op |-> "readable", who |-> "B", res |-> r.res, unit |-> r.unit,
                     after |-> hist.auth, frame |-> hist.hdrs + 1, sock |-> o]
    /\ UNCHANGED pipeVars

\* one byte of frame j in transit is altered: off is its place in the frame
Alter(j, off) ==
    /\ hist.tampers < MaxTamper
    /\ hist.mv.kind = "none"
    /\ j \in 1..Len(hist.blens)
    /\ off < hist.blens[j]
    /\ \E p \in {FrameStart(hist.blens, j) + off - hist.read} :
          /\ p >= 0 /\ p < BLen(wire)
          /\ wire' = BCat(BCat(BTake(wire, p),
                               BXor(BSlice(wire, p, p + 1), Sym("alt", hist.tampers, 0, 1))),
                          BDrop(wire, p + 1))
    /\ hist' = [hist EXCEPT !.tampers = @ + 1]
    /\ ret' = [op |-> "alter", who |-> "wire", res |-> [t |-> "ok"]]
    /\ UNCHANGED <<chan, evl, pipeVars>>

\* the next two frames, both whole on the wire and unread, are transposed
Swap ==
    /\ hist.tampers < MaxTamper
    /\ hist.mv.kind = "none"
    /\ Len(hist.blens) >= hist.hdrs + 2
    /\ hist.read = FrameStart(hist.blens, hist.hdrs + 1)
    /\ \E n1 \in {hist.blens[hist.hdrs + 1]} : \E n2 \in {hist.blens[hist.hdrs + 2]} :
          /\ BLen(wire) >= n1 + n2
          /\ wire' = BCat(BCat(BSlice(wire, n1, n1 + n2), BTake(wire, n1)),
                          BDrop(wire, n1 + n2))
    /\ hist' = [hist EXCEPT !.tampers = @ + 1,
                            !.mv = [kind |-> "swap", deliv |-> Len(hist.delivered),
                                    first |-> "pending", unit |-> "none"]]
    /\ ret' = [op |-> "swap", who |-> "wire", res |-> [t |-> "ok"]]
    /\ UNCHANGED <<chan, evl, pipeVars>>

\* byte off of the header B is about to read, or is reading, is removed
Drop(off) ==
    /\ hist.tampers < MaxTamper
    /\ hist.mv.kind = "none"
    /\ Len(hist.blens) >= hist.hdrs + 1
    /\ hist.read >= FrameStart(hist.blens, hist.hdrs + 1)
    /\ \E p \in {FrameStart(hist.blens, hist.hdrs + 1) + off - hist.read} :
          /\ p >= 0 /\ p < BLen(wire)
          /\ wire' = BCat(BTake(wire, p), BDrop(wire, p + 1))
    /\ hist' = [hist EXCEPT !.tampers = @ + 1,
                            !.mv = [kind |-> "drop", deliv |-> Len(hist.delivered),
                                    first |-> "pending", unit |-> "none"]]
    /\ ret' = [op |-> "drop", who |-> "wire", res |-> [t |-> "ok"]]
    /\ UNCHANGED <<chan, evl, pipeVars>>

\* payload lengths A sends: none, one byte, one block, and one the header cannot hold
LoopLens == {0, 1, 16, LenLimit}

\* payload lengths of the frames that are tampered with
TamperLens == {0, 1, 16}

(* The steps of two ends run by their hosts: each end is built from its     *)
(* handshake, B is registered once and then read.  lens: the lengths A       *)
(* sends; faults: socket calls and event loop calls may fail.                *)
Honest(lens, faults) ==
    \/ New("A")
    \/ New("B")
    \/ \E L \in lens : ASend(L)
    \/ /\ chan.A.st = "up"
       /\ \E o \in ChanWriteOutcomes(chan.A.connection, faults) : AWritable(o)
    \/ \E tm, rr \in (IF faults THEN BOOLEAN ELSE {TRUE}) : hist.nreg = 0 /\ BRegister(tm, rr)
    \/ /\ chan.B.st = "up" /\ hist.nreg >= 1
       /\ \E o \in ChanReadOutcomes(chan.B.connection, wire, faults) : \E j \in JunkHeaders :
             BReadable(o, j)

LoopNext == Honest(LoopLens, FALSE) \/ BSend(1)

\* an untouched pipe between two hosts that register once
SpecLoop == ChanInit({TRUE}) /\ [][LoopNext]_vars

\* the places in a frame of blen bytes at which a byte is altered: header,
\* header MAC, body, payload MAC
AlterOffsets(blen) == {0, 16, 32, blen - 16}

\* the places in a header at which a byte is removed
DropOffsets == {0, 16, 31}

Tamper ==
    \/ \E j \in 1..Len(hist.blens) : \E off \in AlterOffsets(hist.blens[j]) : Alter(j, off)
    \/ Swap
    \/ \E off \in DropOffsets : Drop(off)

TamperNext == Honest(TamperLens, FALSE) \/ Tamper

\* SpecLoop with a pipe that alters, transposes or loses bytes
SpecTamper == ChanInit({TRUE}) /\ [][TamperNext]_vars

\* payload lengths of a peer's frames
PeerLens == {0, 1}

\* header data that is not the RLP of a list with an integer first: a string;
\* a list whose first item runs past its end
BadHeaderData == {Lit(128, 3), BCat(BCat(Lit(194, 1), Lit(130, 1)), Lit(128, 1))}

PeerNext ==
    \/ Honest(PeerLens, FALSE)
    \/ \E hd \in BadHeaderData : ASendBad(0, hd)
    \/ \E j \in 1..Len(hist.blens) : \E off \in AlterOffsets(hist.blens[j]) : Alter(j, off)

\* a peer that may hold an invalid key, send malformed headers, or alter bytes
SpecPeer == ChanInit(BOOLEAN) /\ [][PeerNext]_vars

\* calls of register on B
MaxRegister == 2

\* B.writable(event_loop); what B's socket accepts is not looked at further
BWritable(o) ==
    /\ chan.B.st = "up"
    /\ \E r \in {Writable(chan.B, evl, o)} :
          /\ chan' = [chan EXCEPT !.B = r.ch]
          /\ evl' = r.e
          /\ ret' = [op |-> "writable", who |-> "B", res |-> r.res, sock |-> o,
                     moved |-> BLen(r.out)]
    /\ UNCHANGED <<wire, hist, pipeVars>>

\* packets A sends to a host that registers and reads as it likes
HostPackets == 1

\* their payload lengths
HostLens == {0}

(* B in the hands of a host that calls register, readable, writable and      *)
(* send_packet in any order, register also in the middle of a frame and      *)
(* readable also before the first register; B's socket and its event loop    *)
(* may fail.                                                                 *)
HostNext ==
    \/ New("A")
    \/ New("B")
    \/ \E L \in HostLens : Len(hist.sent) < HostPackets /\ ASend(L)
    \/ /\ chan.A.st = "up"
       /\ \E o \in ChanWriteOutcomes(chan.A.connection, FALSE) : AWritable(o)
    \/ \E tm, rr \in BOOLEAN : hist.nreg < MaxRegister /\ BRegister(tm, rr)
    \/ /\ chan.B.st = "up"
       /\ \E o \in ChanReadOutcomes(chan.B.connection, wire, TRUE) : \E j \in JunkHeaders :
             BReadable(o, j)
    \/ BSend(1)
    \/ /\ chan.B.st = "up"
       /\ \E o \in ChanWriteOutcomes(chan.B.connection, TRUE) : BWritable(o)

\* an untouched pipe into a channel whose host calls it in any order
SpecHost == ChanInit({TRUE}) /\ [][HostNext]_vars

----------------------------------------------------------------------------
(* Claims about the byte pipe *)

\* C6: at every moment the bytes written to the socket are a prefix of the
\* concatenation of the blocks passed to send, in order; what is written and
\* what is still queued add up to it; with the queue empty the two are equal.
C6_WriteCoalescing ==
    /\ sockOut = BTake(ph.pushed, BLen(sockOut))
    /\ BCat(sockOut, Pending(conn.send_queue)) = ph.pushed
    /\ conn.send_queue = <<>> => sockOut = ph.pushed

\* C6 witness: one block is written whole, the next one in part
C6_Witness ==
    /\ Len(conn.send_queue) = 1
    /\ conn.send_queue[1].pos > 0
    /\ BLen(sockOut) > conn.send_queue[1].pos
    /\ pret.op = "writable"

\* C7: after expect(n), n > 0: readable returns none while fewer than n bytes
\* were read in the cycle; the buffer holds the bytes read in the cycle and
\* never more than n; the call that reads the n-th byte returns exactly the
\* next n bytes of the stream, resets the expected size to 0 and the buffer
\* to empty; no byte beyond the n-th is taken from the socket.
C7_ReceiveCycle ==
    /\ BLen(conn.rec_buf) <= conn.rec_size
    /\ BCat(ph.took, sockIn) = Stream(ph.arrived)
    /\ ph.active =>
          /\ conn.rec_size = ph.cycN
          /\ conn.rec_buf = BSlice(ph.took, ph.cycAt, BLen(ph.took))
          /\ pret.op = "readable" => pret.res.t # "some"
    /\ (pret.op = "readable" /\ pret.cyc /\ ~ph.active) =>
          /\ pret.res = [t |-> "some", data |-> BSlice(ph.took, ph.cycAt, ph.cycAt + ph.cycN)]
          /\ BLen(ph.took) = ph.cycAt + ph.cycN
          /\ conn.rec_size = 0
          /\ conn.rec_buf = <<>>

\* C7 witness: a cycle of 2 or more bytes, not the first, completed by its
\* second or later call, with further bytes left waiting in the socket
C7_Witness ==
    /\ pret.op = "readable" /\ pret.cyc /\ ~ph.active
    /\ pret.res.t = "some"
    /\ ph.cycN >= 2 /\ ph.cycAt > 0 /\ ph.calls >= 2
    /\ sockIn # <<>>

\* C10: the interest mask contains writable iff the send queue is non-empty
C10_WritableIffQueued ==
    ("writable" \in conn.interest) <=> (conn.send_queue # <<>>)

\* a step in which writable has returned Ok
WritableOk == pret'.op = "writable" /\ pret'.res.t = "ok"

\* in this step the front block was written to its end and removed
Flushed ==
    /\ conn.send_queue # <<>>
    /\ conn'.send_queue = Tail(conn.send_queue)
    /\ sockOut' = BCat(sockOut, BDrop(conn.send_queue[1].data, conn.send_queue[1].pos))

\* in this step the front block stayed in the queue, not written to its end
Unfinished ==
    /\ conn.send_queue # <<>>
    /\ Len(conn'.send_queue) = Len(conn.send_queue)
    /\ conn'.send_queue[1].data = conn.send_queue[1].data
    /\ conn'.send_queue[1].pos < BLen(conn.send_queue[1].data)

\* C13 as stated: writable returns Complete iff the front block became fully
\* written during the call and was removed, and Ongoing in every other case.
C13_CompleteIffFlushed ==
    [][WritableOk =>
         /\ pret'.res.v = "Complete" <=> Flushed
         /\ pret'.res.v = "Ongoing" <=> ~Flushed]_vars

\* C13 amended: writable returns Complete iff the queue was empty at the call
\* (nothing is written) or the front block became fully written during the
\* call and was removed; it returns Ongoing iff the front block stays in the
\* queue, not yet written to its end.
C13_CompleteOrOngoing ==
    [][WritableOk =>
         /\ pret'.res.v \in {"Complete", "Ongoing"}
         /\ pret'.res.v = "Complete" <=> (conn.send_queue = <<>> \/ Flushed)
         /\ pret'.res.v = "Ongoing" <=> Unfinished
         /\ conn.send_queue = <<>> => (conn' = conn /\ sockOut' = sockOut)]_vars

\* C14: with writable called again and again on a socket that keeps accepting
\* bytes, every block passed to send is in the end written in full and
\* removed, the queue is empty and writable interest is removed; a call in
\* which the socket accepts k > 0 bytes advances the front block by k bytes.
C14_QueueDrains ==
    /\ <>[](/\ conn.send_queue = <<>>
            /\ sockOut = ph.pushed
            /\ "writable" \notin conn.interest)
    /\ [][(pret'.op = "writable" /\ sockOut' # sockOut) =>
            /\ conn.send_queue # <<>>
            /\ sockOut' = BCat(sockOut,
                               BSlice(conn.send_queue[1].data, conn.send_queue[1].pos,
                                      conn.send_queue[1].pos + BLen(sockOut') - BLen(sockOut)))
            /\ Flushed \/ (Unfinished /\ conn'.send_queue[1].pos =
                                conn.send_queue[1].pos + BLen(sockOut') - BLen(sockOut))]_vars

\* C13 witness: writable has returned Complete on a queue that never held a
\* block: nothing was written, and an empty block was passed to send before
C13_Witness ==
    /\ pret.op = "writable" /\ pret.res = [t |-> "ok", v |-> "Complete"]
    /\ sockOut = <<>> /\ ph.pushed = <<>> /\ ph.sends >= 1

----------------------------------------------------------------------------
(* Claims about the framed channel *)

\* the packet the receiver is to return for a payload of length L
PacketOf(L) == [protocol |-> 0, data |-> Payload(L)]

\* nothing is left to do: A's queue is written out and B has read all there
\* is, or asks for no more
Drained ==
    /\ chan.A.st = "up" /\ chan.B.st = "up" /\ hist.nreg >= 1
    /\ chan.A.connection.send_queue = <<>>
    /\ wire = <<>> \/ chan.B.connection.rec_size = BLen(chan.B.connection.rec_buf)

\* C1: over an untouched pipe the packets B.readable returns are the payloads
\* passed to A.send_packet, in the order of the calls, each with protocol 0;
\* none is missing once nothing is left to write or read.
C1_RoundTrip ==
    /\ \A i \in 1..Len(hist.delivered) :
          i <= Len(hist.sent) /\ hist.delivered[i] = PacketOf(hist.sent[i])
    /\ Drained => Len(hist.delivered) = Len(hist.sent)

\* C2: a receive unit (32-byte header or payload frame) with an altered byte
\* makes readable fail with Auth, and no Packet is built from altered bytes.
C2_TamperDetected ==
    /\ (ret.op = "readable" /\ ret.unit.t # "none" /\ HasAlt(ret.unit.data)) =>
          ret.res = [t |-> "err", kind |-> "Auth"]
    /\ \A i \in 1..Len(hist.delivered) : ~HasAlt(hist.delivered[i].data)

\* C2 witness: readable has failed with Auth on a payload frame whose body
\* was altered
C2_Witness ==
    /\ ret.op = "readable" /\ ret.unit.t = "Payload"
    /\ HasAlt(BTake(ret.unit.data, BLen(ret.unit.data) - 16))
    /\ ret.res = [t |-> "err", kind |-> "Auth"]

\* C3: after two frames were transposed, or a header byte was removed, the
\* next unit the receiver completes fails with Auth (after a swap that unit is
\* a header) and no packet is delivered from then on.
C3_Desync ==
    hist.mv.kind # "none" =>
        /\ hist.mv.first \in {"pending", "Auth"}
        /\ (hist.mv.kind = "swap" /\ hist.mv.first # "pending") => hist.mv.unit = "Header"
        /\ Len(hist.delivered) = hist.mv.deliv

\* C3 witness: two frames were transposed and the receiver has failed on the
\* first header it read after that
C3_Witness ==
    /\ hist.mv.kind = "swap" /\ hist.mv.first = "Auth" /\ hist.mv.unit = "Header"
    /\ hist.read > FrameStart(hist.blens, hist.hdrs + 1)

\* C4: once readable has returned an Auth error, no later readable call
\* returns a Packet.
C4_AuthPermanent ==
    ~(ret.op = "readable" /\ ret.after /\ ret.res.t = "packet")

\* C5: each send_packet enqueues one block of 32 + L + pad + 16 bytes, pad =
\* (16 - L mod 16) mod 16; having accepted the header of a frame the receiver
\* expects L + pad + 16 bytes; between frames the receiver has consumed
\* exactly the frames it was through with.
C5_FrameSizes ==
    /\ \A i \in 1..Len(hist.sent) :
          LET L == hist.sent[i]
              pad == (16 - (L % 16)) % 16
          IN  hist.blens[i] = 32 + L + pad + 16 /\ (L + pad) % 16 = 0 /\ pad \in 0..15
    /\ (ret.op = "send_packet" /\ ret.who = "A") => ret.queued = 1
    /\ (chan.B.st = "up" /\ chan.B.read_state = "Payload") =>
          LET L == hist.sent[hist.hdrs]
              pad == (16 - (L % 16)) % 16
          IN  chan.B.connection.rec_size = L + pad + 16
    /\ (chan.B.st = "up" /\ chan.B.read_state = "Header" /\ hist.nreg >= 1 /\ ~hist.auth) =>
          hist.read - BLen(chan.B.connection.rec_buf) = FrameStart(hist.blens, hist.hdrs + 1)

C9_MacEncoderReset ==
    /\ \A w \in {"A", "B"} :
          chan[w].st = "up" => chan[w].mac_encoder = EcbNew(chan[w].mac_encoder.key)
    /\ hist.auth => \E i \in 1..Len(hist.sent) : hist.sent[i] >= LenLimit

\* C9 witness: B has run update_mac for a frame it sent and, after that, for
\* a frame it received, which it returned as a Packet
C9_Witness ==
    /\ hist.replies >= 1
    /\ ret.op = "readable" /\ ret.res.t = "packet"
    /\ chan.B.connection.send_queue # <<>>

\* C11: whenever a channel's read_state is Header, from the moment new has
\* returned, the pipe's expected receive size is 32.
C11_HeaderExpects32 ==
    \A w \in {"A", "B"} :
        (chan[w].st = "up" /\ chan[w].read_state = "Header") =>
            chan[w].connection.rec_size = ENCRYPTED_HEADER_LEN

\* C12: whenever a channel's read_state is Payload, the pipe's expected
\* receive size is payload_len + pad(payload_len) + 16, pad(n) = (16 - n mod
\* 16) mod 16.
C12_PayloadExpects ==
    \A w \in {"A", "B"} :
        (chan[w].st = "up" /\ chan[w].read_state = "Payload") =>
            chan[w].connection.rec_size =
                chan[w].payload_len + ((16 - (chan[w].payload_len % 16)) % 16) + 16

\* the step is a call of one of ops on B
BCall(ops) == ret'.who = "B" /\ ret'.op \in ops

\* C15: a channel has at most one armed idle timer; after a register the
\* timer it armed, if it armed one, is the only one armed, and it is a new
\* one; after a readable or writable, failed or not, none is armed; no other
\* call arms or clears a timer.
C15_IdleTimer ==
    /\ [](Cardinality(evl.armed) <= 1)
    /\ [][/\ BCall({"readable", "writable"}) => evl'.armed = {}
          /\ BCall({"register"}) =>
                /\ evl'.armed = {chan'.B.idle_timeout[i] : i \in 1..Len(chan'.B.idle_timeout)}
                /\ evl'.armed \cap evl.armed = {}
                /\ chan.B.idle_timeout # <<>> => chan'.B.idle_timeout # chan.B.idle_timeout
          /\ ~BCall({"register", "readable", "writable"}) => evl' = evl]_vars

\* C15 witness: the second register has armed the second timer, and it is
\* the only one armed
C15_Witness ==
    /\ ret.op = "register" /\ ret.who = "B" /\ hist.nreg = 2
    /\ evl.next = 3 /\ evl.armed = {2} /\ chan.B.idle_timeout = <<2>>

\* the handshake record end w was built from
HsOf(w) == IF w = "A" THEN HsA ELSE HsB(TRUE)

\* the ECDH shared secret S of end w
SharedOf(w) == Agree(HsOf(w).ecdhe, HsOf(w).remote_public).v

\* nonce_material of end w
NonceMaterialOf(w) ==
    IF HsOf(w).originated THEN BCat(HsOf(w).remote_nonce, HsOf(w).nonce)
    ELSE BCat(HsOf(w).nonce, HsOf(w).remote_nonce)

\* C16 as stated: the key of both CTR ciphers is H(S || H(nonce_material)),
\* the key of the MAC encoder is H(S || AES key).
C16_KeysOneHash ==
    \A w \in {"A", "B"} : chan[w].st = "up" =>
        /\ chan[w].encoder.key = Sha3(BCat(SharedOf(w), Sha3(NonceMaterialOf(w))))
        /\ chan[w].decoder.key = chan[w].encoder.key
        /\ chan[w].mac_encoder.key = Sha3(BCat(SharedOf(w), chan[w].encoder.key))

\* C16 amended: the key of both CTR ciphers is H(S || H(S ||
\* H(nonce_material))), two hashes of key_material after the nonce hash was
\* placed in it, and the key of the MAC encoder is H(S || AES key).
C16_KeysTwoHashes ==
    \A w \in {"A", "B"} : chan[w].st = "up" =>
        /\ chan[w].encoder.key =
              Sha3(BCat(SharedOf(w),
                        Sha3(BCat(SharedOf(w), Sha3(NonceMaterialOf(w))))))
        /\ chan[w].decoder.key = chan[w].encoder.key
        /\ chan[w].mac_encoder.key = Sha3(BCat(SharedOf(w), chan[w].encoder.key))

\* C16 witness: both ends are built, and they have derived the same keys
C16_Witness ==
    /\ ret.op = "new" /\ chan.A.st = "up" /\ chan.B.st = "up"
    /\ chan.A.encoder.key = chan.B.decoder.key
    /\ chan.A.mac_encoder.key = chan.B.mac_encoder.key

\* B's socket is read in this call: bytes of the unit are still missing
ReadAttempted == chan.B.connection.rec_size > BLen(chan.B.connection.rec_buf)

\* C17: a socket read that would block makes readable return none, without
\* an error; a socket error makes readable or writable return that error; in
\* both cases the channel (receive buffer, expected size, send queue and write
\* position, read_state, MAC states, cipher states) is as before the call.
C17_SocketFaults ==
    [][/\ (BCall({"readable"}) /\ ReadAttempted /\ ret'.sock.t = "block") =>
             ret'.res = [t |-> "none"] /\ chan'.B = chan.B
       /\ (BCall({"readable"}) /\ ReadAttempted /\ ret'.sock.t = "err") =>
             ret'.res = [t |-> "err", kind |-> "Io"] /\ chan'.B = chan.B
       /\ (BCall({"writable"}) /\ chan.B.connection.send_queue # <<>> /\ ret'.sock.t = "err") =>
             ret'.res = [t |-> "err", kind |-> "Io"] /\ chan'.B = chan.B
       /\ (BCall({"readable", "writable"}) /\ ret'.res = [t |-> "err", kind |-> "Io"]) =>
             chan'.B = chan.B /\ wire' = wire]_vars

\* C17 witness: a read has failed with part of a unit buffered, and the part
\* is still there
C17_Witness ==
    /\ ret.op = "readable" /\ ret.who = "B" /\ ret.sock.t = "err"
    /\ ret.res = [t |-> "err", kind |-> "Io"]
    /\ chan.B.connection.rec_buf # <<>>
    /\ chan.B.connection.send_queue # <<>>

\* the pipe of B as Connection::readable leaves it in this call, before
\* read_header or read_payload is called
PipeAfterRead == ConnReadable(chan.B.connection, wire, ret'.sock).conn

\* this call passes a 32-byte unit to read_header and its MAC does not match
HeaderMismatch ==
    /\ BCall({"readable"}) /\ ret'.unit.t = "Header"
    /\ BLen(ret'.unit.data) = ENCRYPTED_HEADER_LEN
    /\ ~MacMatches(BDrop(ret'.unit.data, 16), BTake(Squeeze(chan'.B.ingress_mac, 32), 16))

\* this call passes a unit of full_length bytes to read_payload and its MAC
\* does not match
PayloadMismatch ==
    /\ BCall({"readable"}) /\ ret'.unit.t = "Payload"
    /\ BLen(ret'.unit.data) = chan.B.payload_len + Padding(chan.B.payload_len) + 16
    /\ ~MacMatches(BDrop(ret'.unit.data, BLen(ret'.unit.data) - 16),
                   Squeeze(chan'.B.ingress_mac, 16))

\* C18: when the header MAC does not match, read_header fails with Auth and
\* leaves payload_len, protocol_id, read_state, the pipe's expected size and
\* the ingress CTR state as they were when it was called; when the payload MAC
\* does not match, read_payload fails with Auth, returns no Packet and leaves
\* the ingress CTR state (and the fields readable set before calling it) as
\* they were.  So each of these changes only in a call whose MAC has matched.
C18_MacBeforeUse ==
    [][/\ HeaderMismatch =>
             /\ ret'.res = [t |-> "err", kind |-> "Auth"]
             /\ chan'.B.payload_len = chan.B.payload_len
             /\ chan'.B.protocol_id = chan.B.protocol_id
             /\ chan'.B.read_state = chan.B.read_state
             /\ chan'.B.connection = PipeAfterRead
             /\ chan'.B.decoder = chan.B.decoder
       /\ PayloadMismatch =>
             /\ ret'.res = [t |-> "err", kind |-> "Auth"]
             /\ chan'.B.decoder = chan.B.decoder
             /\ chan'.B.payload_len = chan.B.payload_len
             /\ chan'.B.protocol_id = chan.B.protocol_id
             /\ chan'.B.read_state = "Header"
             /\ chan'.B.connection = ConnExpect(PipeAfterRead, ENCRYPTED_HEADER_LEN)
             /\ hist'.delivered = hist.delivered
       /\ (BCall({"readable"}) /\ chan'.B.decoder # chan.B.decoder) =>
             ~HeaderMismatch /\ ~PayloadMismatch /\ ret'.unit.t # "none"]_vars

\* C18 witness: read_payload has failed on the MAC of a frame with a body,
\* after a header was accepted
C18_Witness ==
    /\ ret.op = "readable" /\ ret.who = "B" /\ ret.unit.t = "Payload"
    /\ ret.res = [t |-> "err", kind |-> "Auth"]
    /\ chan.B.payload_len > 0 /\ hist.hdrs >= 1
    /\ BLen(ret.unit.data) = chan.B.payload_len + Padding(chan.B.payload_len) + 16
    /\ ~MacMatches(BDrop(ret.unit.data, BLen(ret.unit.data) - 16),
                   Squeeze(chan.B.ingress_mac, 16))

\* the fields of an end that its receiving direction uses
Ingress(ch) ==
    [ingress_mac |-> ch.ingress_mac, decoder |-> ch.decoder, read_state |-> ch.read_state,
     protocol_id |-> ch.protocol_id, payload_len |-> ch.payload_len,
     rec_buf |-> ch.connection.rec_buf, rec_size |-> ch.connection.rec_size]

\* the fields of an end that its sending direction uses
Egress(ch) ==
    [egress_mac |-> ch.egress_mac, encoder |-> ch.encoder,
     send_queue |-> ch.connection.send_queue]

\* B after new and k calls of send_packet, with no call of readable
RECURSIVE SendAlone(_)
SendAlone(k) ==
    IF k = 0 THEN EncNew(HsB(TRUE)).ch ELSE SendPacket(SendAlone(k - 1), Payload(1))

\* the end ch as it would be had it never sent
NeverSent(ch) ==
    Let(SendAlone(0), LAMBDA f :
        [ch EXCEPT !.egress_mac = f.egress_mac, !.encoder = f.encoder,
                   !.connection.send_queue = <<>>])

\* C19: send_packet leaves the ingress MAC, the ingress cipher, read_state,
\* protocol_id, payload_len, the receive buffer and the expected size as they
\* were; readable leaves the egress MAC, the egress cipher and the send queue
\* as they were; what B has queued is what send_packet calls alone would have
\* queued, and every readable call returns, and leaves in the receiving
\* fields, what it would on an end that never sent.
C19_DirectionsIndependent ==
    /\ [](chan.B.st = "up" => Egress(chan.B) = Egress(SendAlone(hist.replies)))
    /\ [][/\ (ret'.op = "send_packet" /\ ret'.who \in {"A", "B"}) =>
               Ingress(chan'[ret'.who]) = Ingress(chan[ret'.who])
          /\ BCall({"readable"}) =>
               /\ Egress(chan'.B) = Egress(chan.B)
               /\ \E j \in JunkHeaders :
                     \E r \in {Readable(NeverSent(chan.B), evl, wire, ret'.sock, j)} :
                        Ingress(r.ch) = Ingress(chan'.B) /\ r.res = ret'.res]_vars

\* C19 witness: B is handed a packet after it has sent its own frames, which
\* are still queued
C19_Witness ==
    /\ ret.op = "readable" /\ ret.who = "B" /\ ret.res.t = "packet"
    /\ hist.replies = MaxReply /\ Len(chan.B.connection.send_queue) = MaxReply
    /\ Len(hist.delivered) >= 1

\* the 24-bit big-endian number send_packet writes into the header of a
\* payload of len bytes
HeaderLength(len) ==
    Let(Len3(len), LAMBDA h : (ByteAt(h, 0) * 256 + ByteAt(h, 1)) * 256 + ByteAt(h, 2))

\* C20: for every payload send_packet has accepted (it returns Ok for each),
\* the length written in the frame header is the payload's length L, which is
\* also the number of body bytes before the padding; the length the receiver
\* takes from an accepted header is L, never L mod 2^24 for an L >= 2^24.
C20_HeaderLength ==
    /\ \A i \in 1..Len(hist.sent) :
          /\ HeaderLength(hist.sent[i]) = hist.sent[i]
          /\ HeaderLength(hist.sent[i]) + Padding(hist.sent[i]) = hist.blens[i] - 48
    /\ (chan.B.st = "up" /\ chan.B.read_state = "Payload") =>
          chan.B.payload_len = hist.sent[hist.hdrs]

====
